---- MODULE Spec2Model ----
(***************************************************************************)
(* Model of email_to_whatsapp.py: an interactive session that polls an     *)
(* IMAP INBOX for UNSEEN messages, lets the operator select a suffix of    *)
(* them, sends each selected message through the Twilio client and stores  *)
(* the \Seen flag for those whose send returned a message sid.             *)
(*                                                                         *)
(* A message is identified by its IMAP message sequence number (the value  *)
(* returned by SEARCH and stored in the record's "id"), i.e. by its index  *)
(* in the sequence seen.  Strings are modelled as tuples of one-character  *)
(* strings so that strip(), lower(), startswith() and concatenation are    *)
(* computed and not assumed.                                               *)
(***************************************************************************)
EXTENDS Integers, Sequences, FiniteSets, TLC

\* ---------------------------------------------------------------- bounds
\* largest number of messages the INBOX holds during a session
MaxMsgs == 3

\* ------------------------------------------------------------- helpers
Range(s) == {s[k] : k \in 1..Len(s)}

Max(a, b) == IF a >= b THEN a ELSE b

\* ------------------------------------------------------------- strings
\* the whitespace str.strip() removes that occurs in the modelled texts
\* ("TAB", "CR", "LF" stand for the characters \t, \r, \n)
Whitespace == {" ", "TAB", "CR", "LF"}

\* positions of s that hold no whitespace
Inked(s) == {k \in 1..Len(s) : s[k] \notin Whitespace}

LStrip(s) ==
    IF Inked(s) = {} THEN <<>>
    ELSE SubSeq(s, CHOOSE k \in Inked(s) : \A j \in Inked(s) : k <= j, Len(s))

RStrip(s) ==
    IF Inked(s) = {} THEN <<>>
    ELSE SubSeq(s, 1, CHOOSE k \in Inked(s) : \A j \in Inked(s) : k >= j)

\* str.strip()
Strip(s) == RStrip(LStrip(s))

LowerChar(c) ==
    CASE c = "Y" -> "y"
      [] c = "A" -> "a"
      [] c = "N" -> "n"
      [] c = "R" -> "r"
      [] c = "Q" -> "q"
      [] OTHER -> c

\* str.lower()
Lower(s) == [k \in 1..Len(s) |-> LowerChar(s[k])]

\* input(...).strip().lower()
ReadToken(raw) == Lower(Strip(raw))

\* str.startswith(prefix)
StartsWith(s, prefix) ==
    /\ Len(s) >= Len(prefix)
    /\ SubSeq(s, 1, Len(prefix)) = prefix

\* s[:n]
Take(s, n) == SubSeq(s, 1, IF n <= Len(s) THEN n ELSE Len(s))

\* s.replace(c, d) for one-character c and d
Replace(s, c, d) == [k \in 1..Len(s) |-> IF s[k] = c THEN d ELSE s[k]]

\* sub in s
Contains(s, sub) ==
    \E i \in 0..(Len(s) - Len(sub)) : SubSeq(s, i + 1, i + Len(sub)) = sub

\* what the operator may type at a prompt
RawTokens ==
    { <<"1">>, <<"2">>, <<"3">>, <<"r">>, <<"q">>, <<"y">>, <<"n">>,
      <<"Y">>, <<"R">>, <<" ", "q", " ">>, <<" ", "y">>, <<"2", " ">>,
      <<>>, <<" ">>, <<"x">>, <<"1", "2">>, <<"y", "y">>, <<"4">> }

NoTok == [prompt |-> "none", val |-> <<>>]

\* ------------------------------------------------------- messaging gateway
\* message sids returned by client.messages.create (Twilio: SM... / MM...)
Sids == { <<"S", "M", "1">>, <<"M", "M", "2">> }

\* (msg, code) of a TwilioRestException
RestErrors ==
    { [msg |-> <<"b", "a", "d">>, code |-> <<"2", "1">>],
      [msg |-> <<>>, code |-> <<"N", "/", "A">>] }

\* what client.messages.create can do: return a message with a sid, raise a
\* TwilioRestException, or raise any other exception (connection error, ...)
CreateOutcomes ==
    {[kind |-> "sid", sid |-> s, msg |-> <<>>, code |-> <<>>] : s \in Sids}
    \cup {[kind |-> "rest", sid |-> <<>>, msg |-> e.msg, code |-> e.code] :
             e \in RestErrors}
    \cup {[kind |-> "other", sid |-> <<>>, msg |-> <<>>, code |-> <<>>]}

\* f"ERROR: {e.msg} (code {getattr(e, 'code', 'N/A')})"
ErrorText(msg, code) ==
    <<"E", "R", "R", "O", "R", ":", " ">> \o msg
        \o <<" ", "(", "c", "o", "d", "e", " ">> \o code \o <<")">>

\* send_whatsapp: only TwilioRestException is caught
send_whatsapp(o) ==
    CASE o.kind = "sid"  -> [raised |-> FALSE, value |-> o.sid]
      [] o.kind = "rest" -> [raised |-> FALSE, value |-> ErrorText(o.msg, o.code)]
      [] OTHER           -> [raised |-> TRUE, value |-> <<>>]

\* the gateway's own verdict on a call that returned
Outcome(o) == IF o.kind = "sid" THEN "Delivered" ELSE "Failed"

IsSuccessAnyString(result) == TRUE

IsSuccessOnlySM(result) == StartsWith(result, <<"S", "M">>)

\* isinstance(result, str) and not result.startswith("ERROR")
\* (every value send_whatsapp returns is a str)
IsSuccess(result) == ~StartsWith(result, <<"E", "R", "R", "O", "R">>)

\* ------------------------------------------------------------------ state
VARIABLES
    pc,         \* position of interactive_loop
    seen,       \* INBOX: seen[m] is the \Seen flag of message m
    emails,     \* ids of the records returned by the latest fetch_unseen
    selected,   \* ids of the selected records
    idx,        \* position of send_batch's loop in selected (1-based)
    tok,        \* token read by the latest prompt
    calls,      \* client calls made by the latest step, in order
    error,      \* where an exception escaped the loop ("none" if none)
    passLog,    \* sends that returned in the current pass: [id, out]
    passMarks,  \* ids mark_seen was called with in the current pass
    delivered,  \* ids for which send returned a sid in this session
    ackd,       \* delivered ids whose mark_seen succeeded
    bySession,  \* ids whose \Seen flag was set by a call of this session
    polled,     \* ids that some SEARCH UNSEEN of this session returned
    fresh,      \* a fetch_unseen has run since the last pass started
    fn          \* a function of the program under check: its input and result

\* the state of a session
session == <<pc, seen, emails, selected, idx, tok, calls, error, passLog,
             passMarks, delivered, ackd, bySession, polled, fresh>>

vars == <<session, fn>>

NoFn == [op |-> "none"]

Call(op, id) == [op |-> op, id |-> id]

\* ----------------------------------------------------------------- mailbox
\* imap.search(None, '(UNSEEN)'): sequence numbers, ascending
RECURSIVE UnseenFrom(_, _)
UnseenFrom(sn, m) ==
    IF m > Len(sn) THEN <<>>
    ELSE (IF sn[m] THEN <<>> ELSE <<m>>) \o UnseenFrom(sn, m + 1)

SearchUnseen(sn) == UnseenFrom(sn, 1)

\* per message: imap.fetch gives nothing usable (res != "OK", no data or
\* data[0] is None), or it gives the message text, which then parses, or is
\* rejected by message_from_bytes, or makes decode_mime/get_body raise
FetchOutcomes == {"OK", "NO", "PARSEFAIL", "RAISE"}

\* imap.fetch(eid, "(RFC822)") on a mailbox selected read-write: whenever the
\* server returns the message text it sets the message's \Seen flag
FetchSetsSeen(out) == out \in {"OK", "PARSEFAIL", "RAISE"}

\* the loop of fetch_unseen over email_ids
RECURSIVE FetchLoop(_, _, _)
FetchLoop(ids, res, acc) ==
    IF ids = <<>> THEN acc
    ELSE LET eid == Head(ids)
             out == res[eid]
             nxt == [acc EXCEPT
                       !.calls = Append(@, Call("fetch", eid)),
                       !.seen = IF FetchSetsSeen(out)
                                THEN [@ EXCEPT ![eid] = TRUE] ELSE @,
                       !.set = IF FetchSetsSeen(out) /\ ~acc.seen[eid]
                               THEN @ \cup {eid} ELSE @,
                       !.results = IF out = "OK" THEN Append(@, eid) ELSE @,
                       !.raised = (out = "RAISE")]
         IN  IF out = "RAISE" THEN nxt ELSE FetchLoop(Tail(ids), res, nxt)

\* fetch_unseen(imap)
fetch_unseen(sn, status, res) ==
    LET start == [calls |-> <<Call("select", 0), Call("search", 0)>>,
                  seen |-> sn, set |-> {}, results |-> <<>>,
                  raised |-> FALSE]
    IN  IF status # "OK" THEN start
        ELSE FetchLoop(SearchUnseen(sn), res, start)

\* ------------------------------------------------------------------ records
\* preview is cut to this many characters
PreviewLen == 400

PreviewKeepsLF(body) == Take(Replace(Strip(body), "CR", " "), PreviewLen)

\* (body.strip().replace("\r", " ").replace("\n", " "))[:400]
Preview(body) ==
    Take(Replace(Replace(Strip(body), "CR", " "), "LF", " "), PreviewLen)

\* the body part of a payload is cut to this many characters
BodyLimit == 1000

\* f"📧 From: {e['from']}\n💬 Subject: {e['subject']}\nDate: {e['date']}\n\n"
\* ("MAIL" and "BUBBLE" stand for the two emoji, one character each)
Header(e) ==
    <<"MAIL", " ", "F", "r", "o", "m", ":", " ">> \o e.from
        \o <<"LF", "BUBBLE", " ", "S", "u", "b", "j", "e", "c", "t", ":", " ">>
        \o e.subject
        \o <<"LF", "D", "a", "t", "e", ":", " ">> \o e.date
        \o <<"LF", "LF">>

TextCutWhole(e) == Take(Header(e) \o e.body, BodyLimit)

\* text = header + e['body'][:1000]
Text(e) == Header(e) \o Take(e.body, BodyLimit)

\* --------------------------------------------------------------- selection
\* emails[-k:]
LastK(s, k) == SubSeq(s, Max(1, Len(s) - k + 1), Len(s))

SelectFromHead(s, choice) ==
    CASE choice = <<"1">> -> IF Len(s) >= 1 THEN SubSeq(s, 1, 1) ELSE <<>>
      [] choice = <<"2">> -> IF Len(s) >= 1 THEN LastK(s, 3) ELSE <<>>
      [] OTHER            -> s

SelectLastTwo(s, choice) ==
    CASE choice = <<"1">> -> IF Len(s) >= 1 THEN LastK(s, 1) ELSE <<>>
      [] choice = <<"2">> -> IF Len(s) >= 1 THEN LastK(s, 2) ELSE <<>>
      [] OTHER            -> s

\* selected = emails[-1:] / emails[-3:] (if n >= 1 else []) / emails[:]
Select(s, choice) ==
    CASE choice = <<"1">> -> IF Len(s) >= 1 THEN LastK(s, 1) ELSE <<>>
      [] choice = <<"2">> -> IF Len(s) >= 1 THEN LastK(s, 3) ELSE <<>>
      [] OTHER            -> s

SelectionTokens == { <<"1">>, <<"2">>, <<"3">> }

\* ------------------------------------------------------------ control flow
LoopTopCached == "AWAITING_CHOICE"

\* where `continue` and the end of the loop body lead: the top of
\* `while True`, whose first statement is emails = fetch_unseen(imap)
LoopTop == "POLLING"

NothingToSendNever(n) == FALSE

\* if n == 0: ... continue
NothingToSend(n) == n = 0

ContinuesUnlessN(cont) == cont # <<"n">>

\* if cont != 'y': ... break
Continues(cont) == cont = <<"y">>

LogoutErrorEscapes(out, err) == IF out = "RAISE" THEN "logout" ELSE err

\* try: imap.logout() / except Exception: pass -- the exception in flight,
\* if any, stays what it was
LogoutError(out, err) == err

ConfirmedUnlessN(confirm) == confirm # <<"n">>

\* if confirm == 'y'
Confirmed(confirm) == confirm = <<"y">>

\* ------------------------------------------------------------------- Init
Init ==
    /\ pc = "POLLING"
    /\ \E n \in 0..MaxMsgs : seen \in [1..n -> BOOLEAN]
    /\ emails = <<>>
    /\ selected = <<>>
    /\ idx = 1
    /\ tok = NoTok
    /\ calls = <<>>
    /\ error = "none"
    /\ passLog = <<>>
    /\ passMarks = <<>>
    /\ delivered = {}
    /\ ackd = {}
    /\ bySession = {}
    /\ polled = {}
    /\ fresh = FALSE
    /\ fn = NoFn

\* ---------------------------------------------------------------- actions
\* a new message is delivered to the INBOX (unseen, next sequence number)
Arrive ==
    /\ pc # "DONE"
    /\ Len(seen) < MaxMsgs
    /\ seen' = Append(seen, FALSE)
    /\ calls' = <<>>
    /\ UNCHANGED <<pc, emails, selected, idx, tok, error, passLog, passMarks,
                   delivered, ackd, bySession, polled, fresh>>
    /\ UNCHANGED fn

\* top of the while loop: emails = fetch_unseen(imap)
Poll ==
    /\ pc = "POLLING"
    /\ \E status \in {"OK", "NO"} :
       \E res \in [Range(SearchUnseen(seen)) -> FetchOutcomes] :
          LET r == fetch_unseen(seen, status, res)
          IN  /\ seen' = r.seen
              /\ calls' = r.calls
              /\ bySession' = bySession \cup r.set
              /\ polled' = IF status = "OK"
                           THEN polled \cup
                                {c.id : c \in {d \in Range(r.calls) : d.op = "fetch"}}
                           ELSE polled
              /\ IF r.raised
                 THEN /\ pc' = "EXIT"
                      /\ error' = "fetch"
                      /\ UNCHANGED <<emails, fresh>>
                 ELSE /\ pc' = "AWAITING_CHOICE"
                      /\ emails' = r.results
                      /\ fresh' = TRUE
                      /\ UNCHANGED error
    /\ tok' = NoTok
    /\ UNCHANGED <<selected, idx, passLog, passMarks, delivered, ackd>>
    /\ UNCHANGED fn

\* choice = input("Enter option (1/2/3/r/q): ") and the branches on it
Choice ==
    /\ pc = "AWAITING_CHOICE"
    /\ \E raw \in RawTokens :
          LET choice == ReadToken(raw)
          IN  /\ tok' = [prompt |-> "choice", val |-> choice]
              /\ IF choice = <<"q">>
                 THEN pc' = "EXIT" /\ UNCHANGED <<selected, passLog, passMarks>>
                 ELSE IF choice = <<"r">>
                 THEN pc' = LoopTop /\ UNCHANGED <<selected, passLog, passMarks>>
                 ELSE IF NothingToSend(Len(emails))
                 THEN pc' = LoopTop /\ UNCHANGED <<selected, passLog, passMarks>>
                 ELSE IF choice \in SelectionTokens
                 THEN /\ pc' = "CONFIRMING"
                      /\ selected' = Select(emails, choice)
                      /\ passLog' = <<>>
                      /\ passMarks' = <<>>
                 ELSE pc' = LoopTop /\ UNCHANGED <<selected, passLog, passMarks>>
    /\ calls' = <<>>
    /\ UNCHANGED <<seen, emails, idx, error, delivered, ackd, bySession,
                   polled, fresh>>
    /\ UNCHANGED fn

\* confirm = input("Send these to WhatsApp? (y/n): "); on 'y' send_batch is
\* entered, which returns at once when nothing is selected
Confirm ==
    /\ pc = "CONFIRMING"
    /\ \E raw \in RawTokens :
          LET confirm == ReadToken(raw)
          IN  /\ tok' = [prompt |-> "confirm", val |-> confirm]
              /\ IF Confirmed(confirm)
                 THEN IF selected = <<>>
                      THEN pc' = "CONTINUE_PROMPT" /\ UNCHANGED <<idx, fresh>>
                      ELSE pc' = "DISPATCHING" /\ idx' = 1 /\ fresh' = FALSE
                 ELSE pc' = "CONTINUE_PROMPT" /\ UNCHANGED <<idx, fresh>>
    /\ calls' = <<>>
    /\ UNCHANGED <<seen, emails, selected, error, passLog, passMarks,
                   delivered, ackd, bySession, polled>>
    /\ UNCHANGED fn

\* one iteration of send_batch's loop: send_whatsapp, then mark_seen
DispatchOne ==
    /\ pc = "DISPATCHING"
    /\ LET eid == selected[idx]
       IN \E o \in CreateOutcomes :
          LET r == send_whatsapp(o)
          IN  IF r.raised
              THEN /\ pc' = "EXIT"
                   /\ error' = "send"
                   /\ calls' = <<Call("send", eid)>>
                   /\ UNCHANGED <<seen, idx, passLog, passMarks, delivered,
                                  ackd, bySession>>
              ELSE /\ passLog' = Append(passLog, [id |-> eid, out |-> Outcome(o)])
                   /\ delivered' = IF Outcome(o) = "Delivered"
                                   THEN delivered \cup {eid} ELSE delivered
                   /\ idx' = idx + 1
                   /\ pc' = IF idx < Len(selected)
                            THEN "DISPATCHING" ELSE "CONTINUE_PROMPT"
                   /\ UNCHANGED error
                   /\ IF IsSuccess(r.value)
                      THEN \E mark \in {"OK", "NO", "RAISE"} :
                           \* imap.store: OK sets the flag; a NO answer is
                           \* returned and ignored; an exception is caught
                           /\ calls' = <<Call("send", eid), Call("store", eid)>>
                           /\ passMarks' = Append(passMarks, eid)
                           /\ seen' = IF mark = "OK"
                                      THEN [seen EXCEPT ![eid] = TRUE] ELSE seen
                           /\ bySession' = IF mark = "OK" /\ ~seen[eid]
                                           THEN bySession \cup {eid}
                                           ELSE bySession
                           /\ ackd' = IF mark = "OK" /\ Outcome(o) = "Delivered"
                                      THEN ackd \cup {eid} ELSE ackd
                      ELSE /\ calls' = <<Call("send", eid)>>
                           /\ UNCHANGED <<seen, passMarks, bySession, ackd>>
    /\ tok' = NoTok
    /\ UNCHANGED <<emails, selected, polled, fresh>>
    /\ UNCHANGED fn

\* cont = input("Do you want to continue? ...")
ContinuePrompt ==
    /\ pc = "CONTINUE_PROMPT"
    /\ \E raw \in RawTokens :
          LET cont == ReadToken(raw)
          IN  /\ tok' = [prompt |-> "cont", val |-> cont]
              /\ pc' = IF Continues(cont) THEN LoopTop ELSE "EXIT"
    /\ calls' = <<>>
    /\ UNCHANGED <<seen, emails, selected, idx, error, passLog, passMarks,
                   delivered, ackd, bySession, polled, fresh>>
    /\ UNCHANGED fn

\* finally: imap.logout(), any exception swallowed
Logout ==
    /\ pc = "EXIT"
    /\ pc' = "DONE"
    /\ calls' = <<Call("logout", 0)>>
    /\ \E out \in {"OK", "RAISE"} : error' = LogoutError(out, error)
    /\ tok' = NoTok
    /\ UNCHANGED <<seen, emails, selected, idx, passLog, passMarks,
                   delivered, ackd, bySession, polled, fresh>>
    /\ UNCHANGED fn

Next ==
    \/ Arrive
    \/ Poll
    \/ Choice
    \/ Confirm
    \/ DispatchOne
    \/ ContinuePrompt
    \/ Logout

Spec == Init /\ [][Next]_vars

\* the finally clause runs whenever the try block is left
FairSpec == Spec /\ WF_vars(Logout)

TypeOK ==
    /\ pc \in {"POLLING", "AWAITING_CHOICE", "CONFIRMING", "DISPATCHING",
               "CONTINUE_PROMPT", "EXIT", "DONE"}
    /\ Len(seen) <= MaxMsgs
    /\ Range(emails) \subseteq 1..Len(seen)
    /\ Range(selected) \subseteq 1..Len(seen)
    /\ error \in {"none", "fetch", "send"}

\* ------------------------------------------------------------- properties
NoSendOrStore(c) == \A k \in 1..Len(c) : c[k].op \notin {"send", "store"}

NoFetch(c) == \A k \in 1..Len(c) : c[k].op \notin {"search", "fetch"}

SeenSame == \A m \in DOMAIN seen : seen'[m] = seen[m]

\* a dispatch pass over selected has just run to its end
PassDone == pc = "CONTINUE_PROMPT" /\ tok.prompt = "none"

PassIds == {passLog[k].id : k \in 1..Len(passLog)}

IsDelivered(e) == e.out = "Delivered"

RECURSIVE IdsOf(_)
IdsOf(log) == IF log = <<>> THEN <<>> ELSE <<Head(log).id>> \o IdsOf(Tail(log))

\* a mark_seen of the current pass did not set the flag
MarkFailedInPass == \E k \in 1..Len(passMarks) : passMarks[k] \notin ackd

\* C1: every message whose \Seen flag was set by a call of the session is a
\* message for which send returned Delivered earlier in the session.
C1_SeenOnlyAfterDelivered == bySession \subseteq delivered

\* C2: after a dispatch pass, every record of the polled set that is not in
\* the selected subset was not sent and is still unseen.
C2_UnselectedUntouched ==
    PassDone =>
        \A m \in Range(emails) \ Range(selected) :
            m \notin PassIds /\ ~seen[m]

C3Inv ==
    /\ Len(passLog) <= Len(selected)
    /\ \A k \in 1..Len(passLog) : passLog[k].id = selected[k]
    /\ passMarks = IdsOf(SelectSeq(passLog, IsDelivered))
    /\ PassDone => Len(passLog) = Len(selected)

C3Step ==
    /\ (pc = "DISPATCHING" /\ passLog' # passLog
            /\ passLog'[Len(passLog')].out = "Failed")
        => /\ idx' = idx + 1
           /\ pc' = IF idx < Len(selected) THEN "DISPATCHING"
                    ELSE "CONTINUE_PROMPT"
           /\ error' = error
           /\ passMarks' = passMarks
           /\ \A k \in 1..Len(calls') : calls'[k].op # "store"
    /\ (pc = "DISPATCHING" /\ pc' \notin {"DISPATCHING", "CONTINUE_PROMPT"})
        => passLog' = passLog

\* C3: in a dispatch pass the sends that returned are those of the selected
\* records, in order and without a gap; a Failed outcome leads on to the next
\* record (or to the end of the pass) with no mark_seen; mark_seen is called
\* for exactly the records whose own outcome was Delivered; a pass in which
\* every send returned Delivered or Failed has attempted every record.
C3_FailedNeverAborts == []C3Inv /\ [][C3Step]_vars

C3_Witness ==
    /\ PassDone
    /\ Len(passLog) = 2
    /\ passLog[1].out = "Failed"
    /\ passLog[2].out = "Delivered"
    /\ passMarks = <<selected[2]>>

C4Step ==
    (pc = "POLLING" /\ pc' = "AWAITING_CHOICE")
        => (polled \ delivered) \subseteq Range(emails')

\* C4: a message that was unread at some poll and for which no send returned
\* Delivered is still unseen, and every later fetch_unseen returns it.
C4_NoMessageLost ==
    [](\A m \in polled \ delivered : ~seen[m]) /\ [][C4Step]_vars

C5Step ==
    /\ \A k \in 1..Len(calls') :
          calls'[k].op = "send" => calls'[k].id \notin ackd
    /\ (pc = "CONFIRMING" /\ pc' = "DISPATCHING")
        => fresh /\ Range(selected) \subseteq Range(emails)

\* C5: send is never called for a message that was delivered and marked seen
\* earlier in the session, and every dispatch pass starts on a subset of the
\* result of a fetch_unseen made after the previous pass started.
C5_NoDoubleSend == [][C5Step]_vars

C5_Witness ==
    /\ ackd \ Range(selected) # {}
    /\ \E k \in 1..Len(calls) :
          calls[k].op = "send" /\ calls[k].id \notin ackd

C6Step ==
    /\ (pc = "CONFIRMING" /\ tok'.prompt = "confirm" /\ tok'.val # <<"y">>)
        => /\ pc' = "CONTINUE_PROMPT"
           /\ NoSendOrStore(calls')
           /\ SeenSame
    /\ (pc = "CONTINUE_PROMPT" /\ tok.prompt = "confirm" /\ tok.val # <<"y">>)
        => /\ pc' \in {"CONTINUE_PROMPT", "POLLING", "EXIT"}
           /\ NoSendOrStore(calls')
           /\ SeenSame

\* C6: a token other than 'y' at CONFIRMING leads to CONTINUE_PROMPT, and
\* from that answer until the session polls again or exits no send and no
\* store is made and no \Seen flag changes.
C6_CancelSendsNothing == [][C6Step]_vars

C6_Witness ==
    /\ pc = "CONTINUE_PROMPT"
    /\ tok = [prompt |-> "confirm", val |-> <<"n">>]
    /\ selected # <<>>

\* C7: no exception of the send leaves send_whatsapp, so the session never
\* ends on an error raised by a send.
C7_SendNeverRaises == error # "send"

C8Step ==
    /\ (pc = "DISPATCHING" /\ passMarks' # passMarks
            /\ selected[idx] \notin ackd')
        => /\ selected[idx] \in delivered'
           /\ calls' = <<Call("send", selected[idx]), Call("store", selected[idx])>>
           /\ idx' = idx + 1
           /\ pc' = IF idx < Len(selected) THEN "DISPATCHING"
                    ELSE "CONTINUE_PROMPT"
    /\ (pc = "DISPATCHING" /\ MarkFailedInPass)
        => pc' \in {"DISPATCHING", "CONTINUE_PROMPT"}

\* C8: a mark_seen that fails after a Delivered send is not retried and
\* leaves the delivery standing, and the pass goes on from there: send is
\* attempted for every remaining record and the pass ends at CONTINUE_PROMPT.
C8_MarkFailureNonFatal == [][C8Step]_vars

C9Step ==
    (pc = "AWAITING_CHOICE" /\ emails = <<>> /\ tok'.prompt = "choice"
        /\ tok'.val \notin {<<"r">>, <<"q">>})
    => /\ pc' \notin {"CONFIRMING", "DISPATCHING"}
       /\ NoSendOrStore(calls')
       /\ selected' = selected

\* C9: while the unread set of the current poll is empty the session is never
\* at CONFIRMING or DISPATCHING, and a token other than r and q read at
\* AWAITING_CHOICE selects nothing and makes no send and no mark_seen.
C9_EmptySetSelectsNothing ==
    [](emails = <<>> => pc \notin {"CONFIRMING", "DISPATCHING"})
        /\ [][C9Step]_vars

C9_Witness ==
    /\ emails = <<>>
    /\ tok.prompt = "choice"
    /\ tok.val \in SelectionTokens
    /\ pc = "POLLING"

Rejected(t, em) ==
    /\ t \notin {<<"r">>, <<"q">>}
    /\ (t \notin SelectionTokens \/ em = <<>>)

C10Step ==
    (pc = "AWAITING_CHOICE" /\ tok'.prompt = "choice"
        /\ Rejected(tok'.val, emails))
    => /\ pc' = "AWAITING_CHOICE"
       /\ emails' = emails
       /\ NoFetch(calls')

\* C10: a rejected token at AWAITING_CHOICE leaves the session at
\* AWAITING_CHOICE over the same unread set, without a new fetch_unseen.
C10_RejectedTokenRepeats == [][C10Step]_vars

\* ======================================================== pure functions
\* The specifications below check one function of the program each: Init
\* draws its input, the action applies it, the session itself stays idle.
SessionIdle ==
    /\ pc = "DONE"
    /\ seen = <<>>
    /\ emails = <<>>
    /\ selected = <<>>
    /\ idx = 1
    /\ tok = NoTok
    /\ calls = <<>>
    /\ error = "none"
    /\ passLog = <<>>
    /\ passMarks = <<>>
    /\ delivered = {}
    /\ ackd = {}
    /\ bySession = {}
    /\ polled = {}
    /\ fresh = FALSE

Min(a, b) == IF a <= b THEN a ELSE b

\* ------------------------------------------------- the selection (C11)
\* longest unread sequence the selection is applied to
MaxSelLen == 5

SelElems == 1..2

SelInputs == UNION {[1..n -> SelElems] : n \in 0..MaxSelLen}

InitSelect ==
    /\ SessionIdle
    /\ \E s \in SelInputs : \E c \in SelectionTokens :
          fn = [op |-> "select", in |-> s, choice |-> c,
                done |-> FALSE, out |-> <<>>]

ApplySelect ==
    /\ fn.op = "select"
    /\ ~fn.done
    /\ fn' = [fn EXCEPT !.done = TRUE, !.out = Select(fn.in, fn.choice)]
    /\ UNCHANGED session

SpecSelect == InitSelect /\ [][ApplySelect]_vars

\* the final min(k, n) elements of s, in their order
SuffixRef(s, k) ==
    LET m == Min(k, Len(s))
    IN  [j \in 1..m |-> s[Len(s) - m + j]]

\* C11: for every unread sequence of length n >= 0 the selection computed for
\* token 1 is the last element alone (empty if n = 0), for token 2 the final
\* min(3, n) elements in their order, for token 3 the whole sequence.
C11_SelectionMatchesReference ==
    (fn.op = "select" /\ fn.done) =>
        LET s == fn.in
            n == Len(fn.in)
        IN  CASE fn.choice = <<"1">> ->
                    fn.out = IF n = 0 THEN <<>> ELSE <<s[n]>>
              [] fn.choice = <<"2">> ->
                    fn.out = SuffixRef(s, 3) /\ Len(fn.out) = Min(3, n)
              [] OTHER ->
                    fn.out = s /\ Len(fn.out) = n

C11_Witness ==
    /\ fn.op = "select"
    /\ fn.done
    /\ fn.choice = <<"2">>
    /\ Len(fn.in) = 5
    /\ fn.out = SubSeq(fn.in, 3, 5)
    /\ fn.in[2] # fn.in[3]

\* --------------------------------------------------- the preview (C13)
\* longest text put before and after the filling of a body
MaxPad == 1

BodyChars == {"a", " ", "CR", "LF"}

Pads == UNION {[1..n -> BodyChars] : n \in 0..MaxPad}

Rep(c, n) == [k \in 1..n |-> c]

\* body lengths around the cut
PreviewFills ==
    {0, 1, 2, PreviewLen - 1, PreviewLen, PreviewLen + 1, PreviewLen + 2}

InitPreview ==
    /\ SessionIdle
    /\ \E pre \in Pads : \E post \in Pads :
       \E c \in {"a", "CR", "LF"} : \E n \in PreviewFills :
          fn = [op |-> "preview", in |-> pre \o Rep(c, n) \o post,
                done |-> FALSE, out |-> <<>>]

ApplyPreview ==
    /\ fn.op = "preview"
    /\ ~fn.done
    /\ fn' = [fn EXCEPT !.done = TRUE, !.out = Preview(fn.in)]
    /\ UNCHANGED session

SpecPreview == InitPreview /\ [][ApplyPreview]_vars

\* C13: whatever the body, the preview of a record has at most 400 characters
\* and contains no carriage return and no newline.
C13_PreviewBounded ==
    (fn.op = "preview" /\ fn.done) =>
        /\ Len(fn.out) <= 400
        /\ \A k \in 1..Len(fn.out) : fn.out[k] \notin {"CR", "LF"}

C13_Witness ==
    /\ fn.op = "preview"
    /\ fn.done
    /\ Len(fn.in) > 400
    /\ Len(fn.out) = 400
    /\ fn.in[1] = "a"
    /\ fn.in[2] = "LF"
    /\ fn.out[2] = " "

\* ------------------------------------------------ the payload text (C19)
\* longest sender, subject and date of a record
MaxHdr == 1

HdrTexts == UNION {[1..n -> {"a", "b"}] : n \in 0..MaxHdr}

\* a body of n characters that differ from their neighbours
Pattern(n, shift) == [k \in 1..n |-> <<"x", "y", "LF">>[((k + shift) % 3) + 1]]

\* body lengths around the cut
TextFills == {0, 1, BodyLimit - 1, BodyLimit, BodyLimit + 1, BodyLimit + 2}

InitText ==
    /\ SessionIdle
    /\ \E f \in HdrTexts : \E sj \in HdrTexts : \E d \in HdrTexts :
       \E n \in TextFills : \E shift \in 0..1 :
          fn = [op |-> "text",
                in |-> [from |-> f, subject |-> sj, date |-> d,
                        body |-> Pattern(n, shift)],
                done |-> FALSE, out |-> <<>>]

ApplyText ==
    /\ fn.op = "text"
    /\ ~fn.done
    /\ fn' = [fn EXCEPT !.done = TRUE, !.out = Text(fn.in)]
    /\ UNCHANGED session

SpecText == InitText /\ [][ApplyText]_vars

\* C19: the text handed to send is the whole header block followed by the
\* first min(1000, length(body)) characters of the body, and nothing else.
C19_TextIsHeaderPlusBodyPrefix ==
    (fn.op = "text" /\ fn.done) =>
        LET h == Len(Header(fn.in))
            b == Min(1000, Len(fn.in.body))
        IN  /\ Len(fn.out) = h + b
            /\ SubSeq(fn.out, 1, h) = Header(fn.in)
            /\ \A j \in 1..b : fn.out[h + j] = fn.in.body[j]

C19_Witness ==
    /\ fn.op = "text"
    /\ fn.done
    /\ Len(fn.in.body) = 1002
    /\ fn.in.from = <<"a">>
    /\ Len(fn.out) = Len(Header(fn.in)) + 1000
    /\ fn.out[Len(fn.out)] = fn.in.body[1000]

\* ---------------------------------------------------------------- decoding
\* Bytes are "a", "b" (ASCII) and "xFF" (a byte that is not valid UTF-8).
\* A charset is "none" (no charset given: None), a codec Python knows, or
\* "x-unknown", a name no codec is registered for.
KnownCodecs == {"utf-8", "latin-1"}

\* charset or "utf-8"
OrUtf8(charset) == IF charset = "none" THEN "utf-8" ELSE charset

IsAscii(b) == b # "xFF"

\* bytes.decode(charset, errors="ignore"): LookupError for an unknown codec;
\* UTF-8 drops the invalid byte, Latin-1 maps every byte to a character
DecodeBytes(bytes, charset) ==
    IF charset \notin KnownCodecs
    THEN [raised |-> TRUE, text |-> <<>>]
    ELSE IF charset = "utf-8"
    THEN [raised |-> FALSE, text |-> SelectSeq(bytes, IsAscii)]
    ELSE [raised |-> FALSE, text |-> Replace(bytes, "xFF", "yuml")]

\* decode_mime(s): s is the list decode_header gives, chunks that are bytes
\* with an encoding (or None) or already text
RECURSIVE decode_mime(_)
decode_mime(s) ==
    IF s = <<>> THEN [raised |-> FALSE, text |-> <<>>]
    ELSE LET part == Head(s)
             d == IF part.bytes THEN DecodeBytes(part.data, OrUtf8(part.enc))
                  ELSE [raised |-> FALSE, text |-> part.data]
             rest == decode_mime(Tail(s))
         IN  IF d.raised \/ rest.raised
             THEN [raised |-> TRUE, text |-> <<>>]
             ELSE [raised |-> FALSE, text |-> d.text \o rest.text]

\* part.get_payload(decode=True).decode(charset, errors="ignore")
DecodePart(part) ==
    LET d == DecodeBytes(part.payload, OrUtf8(part.charset))
    IN  [found |-> TRUE, raised |-> d.raised, text |-> d.text]

NotFound == [found |-> FALSE, raised |-> FALSE, text |-> <<>>]

\* first loop of get_body over msg.walk()
RECURSIVE PlainLoop(_)
PlainLoop(parts) ==
    IF parts = <<>> THEN NotFound
    ELSE LET part == Head(parts)
         IN  IF part.ct = "text/plain"
                  /\ ~Contains(part.disp, <<"a", "t", "t", "a", "c", "h", "m", "e", "n", "t">>)
             THEN DecodePart(part)
             ELSE PlainLoop(Tail(parts))

\* second loop of get_body over msg.walk()
RECURSIVE HtmlLoop(_)
HtmlLoop(parts) ==
    IF parts = <<>> THEN NotFound
    ELSE LET part == Head(parts)
         IN  IF part.ct = "text/html"
             THEN DecodePart(part)
             ELSE HtmlLoop(Tail(parts))

\* get_body(msg); msg.walk is msg.walk() as a sequence (the message itself
\* first, then its parts depth-first)
get_body(msg) ==
    IF msg.multipart
    THEN LET p == PlainLoop(msg.walk)
             h == HtmlLoop(msg.walk)
         IN  IF p.found THEN p ELSE IF h.found THEN h ELSE NotFound
    ELSE DecodePart(msg.walk[1])

\* ------------------------------------------------------ the body (C18)
\* most parts below the top of a multipart message
MaxParts == 2

Dispositions ==
    { <<>>, <<"i", "n", "l", "i", "n", "e">>, <<"a", "t", "t", "a", "c", "h", "m", "e", "n", "t", ";", " ", "f", "=", "a">>, <<"A", "t", "t", "a", "c", "h", "m", "e", "n", "t">> }

Payloads == { <<"a">>, <<"xFF", "b">> }

Leaves ==
    [ct : {"text/plain", "text/html", "image/png"}, disp : Dispositions,
     charset : {"none", "latin-1", "x-unknown"}, payload : Payloads]

\* the top of a multipart message: its payload is the list of parts
Container ==
    [ct |-> "multipart/mixed", disp |-> <<>>, charset |-> "none",
     payload |-> <<>>]

InitBody ==
    /\ SessionIdle
    /\ \/ \E l \in Leaves :
             fn = [op |-> "body", in |-> [multipart |-> FALSE, walk |-> <<l>>],
                   done |-> FALSE, out |-> NotFound]
       \/ \E n \in 0..MaxParts : \E ps \in [1..n -> Leaves] :
             fn = [op |-> "body",
                   in |-> [multipart |-> TRUE, walk |-> <<Container>> \o ps],
                   done |-> FALSE, out |-> NotFound]

ApplyBody ==
    /\ fn.op = "body"
    /\ ~fn.done
    /\ fn' = [fn EXCEPT !.done = TRUE, !.out = get_body(fn.in)]
    /\ UNCHANGED session

SpecBody == InitBody /\ [][ApplyBody]_vars

\* the disposition type of a Content-Disposition value: the token before the
\* first ";", which is case-insensitive
DispType(disp) ==
    LET semis == {k \in 1..Len(disp) : disp[k] = ";"}
        cut == IF semis = {} THEN Len(disp)
               ELSE (CHOOSE k \in semis : \A j \in semis : k <= j) - 1
    IN  [k \in 1..cut |-> LowerChar(SubSeq(disp, 1, cut)[k])]

DeclaredAttachment(part) ==
    DispType(part.disp) = <<"a", "t", "t", "a", "c", "h", "m", "e", "n", "t">>

FirstOf(S) == CHOOSE k \in S : \A j \in S : k <= j

\* the body the claim describes
RefBody(msg) ==
    LET plain == {k \in 1..Len(msg.walk) :
                     /\ msg.walk[k].ct = "text/plain"
                     /\ ~DeclaredAttachment(msg.walk[k])}
        html == {k \in 1..Len(msg.walk) : msg.walk[k].ct = "text/html"}
    IN  IF plain # {} THEN DecodePart(msg.walk[FirstOf(plain)]).text
        ELSE IF html # {} THEN DecodePart(msg.walk[FirstOf(html)]).text
        ELSE <<>>

\* C18: for a multipart message the extracted body is the decoded text of the
\* first text/plain part that is not a declared attachment, else of the first
\* text/html part, else the empty string.
C18_BodyPriority ==
    (fn.op = "body" /\ fn.done /\ fn.in.multipart /\ ~fn.out.raised) =>
        fn.out.text = RefBody(fn.in)

\* ------------------------------------------ fetch_unseen on messages (C12)
\* most unread messages of one fetch_unseen
MaxFetch == 2

\* a header as decode_header returns it: absent, plain text, an encoded word
\* in UTF-8 with an invalid byte, an encoded word in an unknown charset
Subjects ==
    { <<>>,
      <<[bytes |-> FALSE, enc |-> "none", data |-> <<"a">>]>>,
      <<[bytes |-> TRUE, enc |-> "utf-8", data |-> <<"xFF", "b">>]>>,
      <<[bytes |-> TRUE, enc |-> "x-unknown", data |-> <<"a">>]>> }

\* what the server holds for one unread message: the answer to FETCH, whether
\* message_from_bytes accepts the text, and the parsed message
RawMessages ==
    { [fetch |-> "NO", parses |-> TRUE, subject |-> <<>>,
       msg |-> [multipart |-> TRUE, walk |-> <<Container>>]],
      [fetch |-> "OK", parses |-> FALSE, subject |-> <<>>,
       msg |-> [multipart |-> TRUE, walk |-> <<Container>>]] }
    \cup
    { [fetch |-> "OK", parses |-> TRUE, subject |-> sj,
       msg |-> [multipart |-> FALSE,
                walk |-> <<[ct |-> "text/plain", disp |-> <<>>,
                            charset |-> cs, payload |-> p]>>]] :
        sj \in Subjects, cs \in {"none", "latin-1", "x-unknown"},
        p \in Payloads }

\* lines 79-92: the record built from a parsed message
BuildRecord(raw) ==
    LET sj == decode_mime(raw.subject)
        b == get_body(raw.msg)
    IN  [raised |-> sj.raised \/ b.raised,
         subject |-> sj.text,
         body |-> b.text,
         preview |-> Preview(b.text)]

\* how the loop of fetch_unseen fares on one message
FetchOutcome(raw) ==
    IF raw.fetch # "OK" THEN "NO"
    ELSE IF ~raw.parses THEN "PARSEFAIL"
    ELSE IF BuildRecord(raw).raised THEN "RAISE"
    ELSE "OK"

InitFetch ==
    /\ SessionIdle
    /\ \E n \in 0..MaxFetch : \E raws \in [1..n -> RawMessages] :
       \E status \in {"OK", "NO"} :
          fn = [op |-> "fetch", in |-> raws, status |-> status,
                done |-> FALSE, raised |-> FALSE, out |-> <<>>]

ApplyFetch ==
    /\ fn.op = "fetch"
    /\ ~fn.done
    /\ LET n == Len(fn.in)
           r == fetch_unseen([k \in 1..n |-> FALSE], fn.status,
                             [k \in 1..n |-> FetchOutcome(fn.in[k])])
       IN  fn' = [fn EXCEPT !.done = TRUE, !.raised = r.raised,
                            !.out = r.results]
    /\ UNCHANGED session

SpecFetch == InitFetch /\ [][ApplyFetch]_vars

\* a message whose charsets, if any, name a codec
Decodable(raw) ==
    /\ raw.fetch = "OK"
    /\ raw.parses
    /\ \A k \in 1..Len(raw.subject) :
          raw.subject[k].bytes => OrUtf8(raw.subject[k].enc) \in KnownCodecs
    /\ \A k \in 1..Len(raw.msg.walk) :
          OrUtf8(raw.msg.walk[k].charset) \in KnownCodecs

\* C12: fetch_unseen never raises, whatever the unread messages contain; it
\* returns, in mailbox order, at least every message that can be fetched,
\* parsed and decoded, and the others are decoded best-effort or dropped.
C12_FetchNeverRaises ==
    (fn.op = "fetch" /\ fn.done) =>
        /\ ~fn.raised
        /\ \A k \in 1..Len(fn.out) - 1 : fn.out[k] < fn.out[k + 1]
        /\ fn.status = "OK" =>
              \A m \in 1..Len(fn.in) :
                  Decodable(fn.in[m]) => m \in Range(fn.out)

\* ------------------------------------------------- session claims C14..C20
HasCall(c, op) == \E k \in 1..Len(c) : c[k].op = op

C14Step ==
    /\ pc # "DONE"
    /\ (pc = "AWAITING_CHOICE" /\ tok'.prompt = "choice" /\ tok'.val = <<"q">>)
        => pc' = "EXIT"
    /\ (pc = "CONTINUE_PROMPT" /\ tok'.prompt = "cont" /\ tok'.val # <<"y">>)
        => pc' = "EXIT"
    /\ error' # error => pc' = "EXIT"
    /\ pc = "EXIT" => pc' \in {"EXIT", "DONE"}
    /\ (HasCall(calls', "logout") \/ pc' = "DONE")
        => /\ pc = "EXIT"
           /\ pc' = "DONE"
           /\ calls' = <<Call("logout", 0)>>
           /\ error' = error

\* C14: token q, a token other than y at CONTINUE_PROMPT and an error that
\* escapes the loop all lead to EXIT; from EXIT the session makes exactly one
\* logout call, after which it does nothing more, and that call leaves the
\* error in flight (or the absence of one) as it was.
C14_ClosedExactlyOnce == [][C14Step]_vars /\ (pc = "EXIT" ~> pc = "DONE")

C14_Witness ==
    /\ pc = "DONE"
    /\ error = "send"
    /\ calls = <<Call("logout", 0)>>

C15Inv ==
    (PassDone \/ error = "send") =>
        /\ Len(passLog) + (IF error = "send" THEN 1 ELSE 0) = Len(selected)
        /\ IdsOf(passLog) = SubSeq(selected, 1, Len(passLog))

C15Step ==
    (pc = "DISPATCHING" /\ (pc' # pc \/ idx' # idx)) =>
        /\ calls'[1] = Call("send", selected[idx])
        /\ \A k \in 2..Len(calls') : calls'[k].op # "send"

\* C15: a dispatch pass over k selected records makes exactly k send calls,
\* the i-th for the i-th record of the subset.
C15_ExactlyKSendsInOrder == []C15Inv /\ [][C15Step]_vars

C16Step ==
    (pc = "DISPATCHING" /\ passLog' # passLog
        /\ passLog'[Len(passLog')].out = "Delivered")
    => calls' = <<Call("send", selected[idx]), Call("store", selected[idx])>>

\* C16: a send that returns Delivered, whatever the sid, is followed in the
\* same iteration, before any other send, by exactly one mark_seen call,
\* made with the id of the record just sent.
C16_DeliveredThenMarked == [][C16Step]_vars

C16_Witness ==
    /\ pc = "DISPATCHING"
    /\ idx = 2
    /\ passLog = <<[id |-> selected[1], out |-> "Delivered"]>>
    /\ calls = <<Call("send", selected[1]), Call("store", selected[1])>>

C17Step ==
    /\ (pc = "DISPATCHING" /\ passLog' # passLog
            /\ Len(passLog') = Len(selected))
        => pc' = "CONTINUE_PROMPT"
    /\ (pc = "CONFIRMING" /\ tok'.prompt = "confirm" /\ tok'.val # <<"y">>)
        => pc' = "CONTINUE_PROMPT"
    /\ (pc = "CONTINUE_PROMPT" /\ tok'.prompt = "cont")
        => pc' = IF tok'.val = <<"y">> THEN "POLLING" ELSE "EXIT"
    /\ (pc # "AWAITING_CHOICE" /\ pc' = "AWAITING_CHOICE")
        => pc = "POLLING" /\ HasCall(calls', "search")
    /\ pc \in {"EXIT", "DONE"}
        => /\ pc' \in {"EXIT", "DONE"}
           /\ NoFetch(calls')
           /\ NoSendOrStore(calls')

\* C17: a completed pass and a cancellation end at CONTINUE_PROMPT; token y
\* there leads to POLLING and AWAITING_CHOICE is entered only by a
\* fetch_unseen; any other token leads to EXIT, after which there is no
\* fetch, send or mark_seen.
C17_ContinueOrExit == [][C17Step]_vars

C17_Witness ==
    /\ pc = "POLLING"
    /\ tok = [prompt |-> "cont", val |-> <<"y">>]
    /\ Len(passLog) = 2
    /\ Len(selected) = 2

IsSuffix(t, s) ==
    /\ Len(t) <= Len(s)
    /\ t = SubSeq(s, Len(s) - Len(t) + 1, Len(s))

\* C20: at CONFIRMING and at DISPATCHING the selected subset is non-empty and
\* is a contiguous suffix of the unread set of the latest fetch, so send_batch
\* is never entered with nothing selected.
C20_SelectedNonEmptySuffix ==
    pc \in {"CONFIRMING", "DISPATCHING"} =>
        selected # <<>> /\ IsSuffix(selected, emails)

C20_Witness ==
    /\ pc = "DISPATCHING"
    /\ Len(emails) = 3
    /\ selected = <<emails[3]>>
====
